---- MODULE Spec2Model ----
(***************************************************************************)
(* A model of akima.interpolate (src/akima/akima.py, lines 146-248), the   *)
(* pure-Python implementation of Akima's 1970 interpolation method.        *)
(*                                                                         *)
(* One call of interpolate is a run of the state machine: Init is the call *)
(* with its arguments, each action is one block of statements of the       *)
(* function body, and pc = "done" / pc = "raised" are the two ways the     *)
(* call ends.                                                              *)
(*                                                                         *)
(* Numbers.  The code computes in float64.  The model computes with exact  *)
(* rationals <<num, den>> (den > 0, lowest terms); a division by zero      *)
(* yields the token NonFinite, which every later operation propagates,     *)
(* as numpy's inf/nan do.  Rounding is not modelled: every statement below *)
(* is a statement about the real-number computation the code performs.     *)
(***************************************************************************)
EXTENDS Integers, Sequences, FiniteSets, TLC

(***************************************************************************)
(* Bounds of the model.                                                    *)
(***************************************************************************)
MaxN == 5
MaxX == 4
MaxY == 3
MaxQ == 2

(***************************************************************************)
(* Exact rational arithmetic.                                              *)
(***************************************************************************)
Abs(k) == IF k < 0 THEN -k ELSE k

RECURSIVE Gcd(_, _)
Gcd(a, b) == IF b = 0 THEN a ELSE Gcd(b, a % b)

NonFinite == <<0, 0>>

IsFinite(a) == a[2] # 0

Norm(p, q) ==
    IF q = 0 THEN NonFinite
    ELSE LET g == Gcd(Abs(p), Abs(q))
             s == IF q < 0 THEN -1 ELSE 1
         IN  <<(s * p) \div g, (s * q) \div g>>

R(k) == <<k, 1>>

RAdd(a, b) ==
    IF ~IsFinite(a) \/ ~IsFinite(b) THEN NonFinite
    ELSE LET g == Gcd(a[2], b[2])
         IN  Norm(a[1] * (b[2] \div g) + b[1] * (a[2] \div g), a[2] * (b[2] \div g))

RNeg(a) == <<-a[1], a[2]>>

RSub(a, b) == RAdd(a, RNeg(b))

RMul(a, b) ==
    IF ~IsFinite(a) \/ ~IsFinite(b) THEN NonFinite
    ELSE LET g1 == Gcd(Abs(a[1]), b[2])
             g2 == Gcd(Abs(b[1]), a[2])
         IN  Norm((a[1] \div g1) * (b[1] \div g2), (a[2] \div g2) * (b[2] \div g1))

RDiv(a, b) ==
    IF ~IsFinite(a) \/ ~IsFinite(b) \/ b[1] = 0 THEN NonFinite
    ELSE RMul(a, IF b[1] < 0 THEN <<-b[2], -b[1]>> ELSE <<b[2], b[1]>>)

RAbs(a) == <<Abs(a[1]), a[2]>>

\* a < b; false when either side is not finite, as a comparison with nan is
RLess(a, b) == IsFinite(a) /\ IsFinite(b) /\ a[1] * b[2] < b[1] * a[2]

RLeq(a, b) == IsFinite(a) /\ IsFinite(b) /\ a[1] * b[2] <= b[1] * a[2]

RMax2(a, b) == IF RLess(a, b) THEN b ELSE a

(***************************************************************************)
(* numpy's array operations on 1-D arrays, as sequences.  The code indexes *)
(* from 0; At(s, i) is s[i] of the code, a negative i counting from the    *)
(* end.                                                                    *)
(***************************************************************************)
At(s, i) == IF i < 0 THEN s[Len(s) + i + 1] ELSE s[i + 1]

\* s[lo:hi] of the code
Slice(s, lo, hi) == SubSeq(s, lo + 1, hi)

\* numpy.diff(s)
Diff(s) == [i \in 1..(IF Len(s) = 0 THEN 0 ELSE Len(s) - 1) |-> RSub(s[i + 1], s[i])]

\* numpy.abs(s)
AbsSeq(s) == [i \in 1..Len(s) |-> RAbs(s[i])]

\* a + b, a / b elementwise
AddSeq(a, b) == [i \in 1..Len(a) |-> RAdd(a[i], b[i])]

DivSeq(a, b) == [i \in 1..Len(a) |-> RDiv(a[i], b[i])]

RECURSIVE MaxSeq(_)
\* numpy.max(s), s not empty
MaxSeq(s) == IF Len(s) = 1 THEN s[1] ELSE RMax2(s[1], MaxSeq(Tail(s)))

\* numpy.concatenate of two 1-D arrays
Concat(a, b) == a \o b

\* numpy.digitize with right=True: the number of bins that are < q
Digitize_Right(q, bins) == Cardinality({i \in 1..Len(bins) : RLess(bins[i], q)})

\* numpy.digitize(q, bins) for increasing bins: the i with bins[i-1] <= q < bins[i],
\* which is the number of bins that are <= q
Digitize(q, bins) == Cardinality({i \in 1..Len(bins) : RLeq(bins[i], q)})

Min2(a, b) == IF a < b THEN a ELSE b

(***************************************************************************)
(* The relative tolerance 1e-9 of line 236, as 1 / EpsInv.                 *)
(***************************************************************************)
EpsInv == 1000000000

\* f > 1e-9 * w for rationals f >= 0, w >= 0.  With f = a/b and w = c/d this is
\* a * d * EpsInv > c * b, computed here as a * d > (c * b) \div EpsInv: the two
\* agree because a * d is an integer, and the second form stays within the
\* range of the model checker's integers.
AboveThreshold(f, w) ==
    IsFinite(f) /\ IsFinite(w) /\ f[1] * w[2] > (w[1] * f[2]) \div EpsInv

(***************************************************************************)
(* The formulas of the function body.                                      *)
(***************************************************************************)
\* line 223: m = numpy.diff(y) / dx
SecantSlopes(yy, dd) == DivSeq(Diff(yy), dd)

\* the second extrapolated slope at each end taken from the wrong neighbour
ExtendSlopes_Slip(mm_, nn) ==
    LET mm  == RSub(RMul(R(2), At(mm_, 0)), At(mm_, 1))
        mmm == RSub(RMul(R(2), mm), At(mm_, 1))
        mp  == RSub(RMul(R(2), At(mm_, nn - 2)), At(mm_, nn - 3))
        mpp == RSub(RMul(R(2), mp), At(mm_, nn - 3))
    IN  Concat(Concat(<<mmm, mm>>, mm_), <<mp, mpp>>)

\* lines 224-229: the slopes with two extrapolated slopes before and after
ExtendSlopes(mm_, nn) ==
    LET mm  == RSub(RMul(R(2), At(mm_, 0)), At(mm_, 1))
        mmm == RSub(RMul(R(2), mm), At(mm_, 0))
        mp  == RSub(RMul(R(2), At(mm_, nn - 2)), At(mm_, nn - 3))
        mpp == RSub(RMul(R(2), mp), At(mm_, nn - 2))
    IN  Concat(Concat(<<mmm, mm>>, mm_), <<mp, mpp>>)

\* line 231: dm = numpy.abs(numpy.diff(m1))
SlopeDiffs(mext) == AbsSeq(Diff(mext))

\* the threshold of each point taken relative to its own combined weight
SelectIds_PerPoint(ff) == {i \in 0..(Len(ff) - 1) : AboveThreshold(At(ff, i), At(ff, i))}

\* >= in place of >: f >= 1e-9 * w
SelectIds_NotBelow(ff) ==
    {i \in 0..(Len(ff) - 1) :
        LET f == At(ff, i)
            w == MaxSeq(ff)
        IN  IsFinite(f) /\ IsFinite(w)
              /\ f[1] * w[2] >= (w[1] * f[2] + EpsInv - 1) \div EpsInv}

\* line 236: the points whose combined weight is above the threshold, which is
\* relative to the largest combined weight of all points
SelectIds(ff) == {i \in 0..(Len(ff) - 1) : AboveThreshold(At(ff, i), MaxSeq(ff))}

\* line 239, right-hand side, for the point i
Weighted(mext, ff1, ff2, ff12, i) ==
    RDiv(RAdd(RMul(At(ff1, i), At(mext, i + 1)), RMul(At(ff2, i), At(mext, i + 2))),
         At(ff12, i))

\* the assignment made one point after the other, from the last point to the
\* first, each reading the slopes the points before it have overwritten
AssignDerivatives_InTurn(mext, ff1, ff2, ff12, sel) ==
    LET RECURSIVE Go(_, _)
        Go(cur, i) ==
            IF i < 0 THEN cur
            ELSE Go(IF i \in sel
                    THEN [cur EXCEPT ![i + 2] = Weighted(cur, ff1, ff2, ff12, i)]
                    ELSE cur,
                    i - 1)
    IN  Go(mext, Len(ff12) - 1)

\* line 239: b[ids] = ..., where b is the view m1[1 : n + 1] of line 237, so that
\* the assignment writes m1[i + 1] for every i of ids.  numpy evaluates the whole
\* right-hand side, from m1 as it is, before it assigns.
AssignDerivatives(mext, ff1, ff2, ff12, sel) ==
    [k \in 1..Len(mext) |->
        IF (k - 2) \in sel THEN Weighted(mext, ff1, ff2, ff12, k - 2) ELSE mext[k]]

\* line 237: b = m1[1 : n + 1], a view
View(mext, nn) == Slice(mext, 1, nn + 1)

\* the two derivatives of a segment taken for each other
CoeffC_Swapped(mm_, bb, dd, nn) ==
    [k \in 1..(nn - 1) |->
        RDiv(RSub(RSub(RMul(R(3), mm_[k]), bb[k]), RMul(R(2), bb[k + 1])), dd[k])]

\* line 240: c = (3.0 * m - 2.0 * b[0 : n - 1] - b[1:n]) / dx
CoeffC(mm_, bb, dd, nn) ==
    [k \in 1..(nn - 1) |->
        RDiv(RSub(RSub(RMul(R(3), mm_[k]), RMul(R(2), bb[k])), bb[k + 1]), dd[k])]

\* dx in place of dx**2
CoeffD_ByDx(mm_, bb, dd, nn) ==
    [k \in 1..(nn - 1) |->
        RDiv(RSub(RAdd(bb[k], bb[k + 1]), RMul(R(2), mm_[k])), dd[k])]

\* line 241: d = (b[0 : n - 1] + b[1:n] - 2.0 * m) / dx**2
CoeffD(mm_, bb, dd, nn) ==
    [k \in 1..(nn - 1) |->
        RDiv(RSub(RAdd(bb[k], bb[k + 1]), RMul(R(2), mm_[k])), RMul(dd[k], dd[k]))]

\* lines 243-245: the segment of the query q
Segment(q, xx, nn) == Min2(Digitize(q, xx), nn - 1) - 1

\* c and d taken for each other
Horner_Swapped(w, k, yy, bb, cc, dd_) ==
    RAdd(RMul(RAdd(RMul(RAdd(RMul(w, At(cc, k)), At(dd_, k)), w), At(bb, k)), w), At(yy, k))

\* line 248, for one query: Horner's scheme on the segment k with offset w
Horner(w, k, yy, bb, cc, dd_) ==
    RAdd(RMul(RAdd(RMul(RAdd(RMul(w, At(dd_, k)), At(cc, k)), w), At(bb, k)), w), At(yy, k))

(***************************************************************************)
(* The inputs of the model.                                                *)
(***************************************************************************)
SeqsOfLen(S, k) == [1..k -> S]

SeqsUpTo(S, k) == UNION {SeqsOfLen(S, j) : j \in 0..k}

Increasing(s) == \A i \in 1..(Len(s) - 1) : RLess(s[i], s[i + 1])

Abscissas == {R(k) : k \in 0..MaxX}

Ordinates == {R(k) : k \in 0..MaxY}

\* the abscissas, the midpoints between them, and one point off each end
Queries == {Norm(k, 2) : k \in (-1)..(2 * MaxX + 1)}

Call(xa, ya, qa, ax, o, xd, yd, qd) ==
    [x |-> xa, y |-> ya, x_new |-> qa, axis |-> ax, out |-> o,
     xndim |-> xd, yndim |-> yd, qndim |-> qd]

\* the samples that pass every check: 3 to MaxN points with increasing abscissas
Samples ==
    UNION {{s \in SeqsOfLen(Abscissas, j) : Increasing(s)} \X SeqsOfLen(Ordinates, j) :
             j \in 3..MaxN}

\* a sample with no query or one query, in range or not
SampleCalls ==
    {Call(xy[1], xy[2], qa, -1, FALSE, 1, 1, 1) : xy \in Samples, qa \in SeqsUpTo(Queries, 1)}

\* a sample queried at its own abscissas
RoundTripCalls ==
    {Call(xy[1], xy[2], xy[1], -1, FALSE, 1, 1, 1) : xy \in Samples}

\* several queries in any order, on three points
OrderCalls ==
    {Call(<<R(0), R(1), R(2)>>, ya, qa, -1, FALSE, 1, 1, 1) :
        ya \in SeqsOfLen({R(0), R(1)}, 3),
        qa \in UNION {SeqsOfLen(Queries, j) : j \in 2..MaxQ}}

\* the second scenario of the specification, which is outside the ordinates above
LinearCalls ==
    {Call(<<R(0), R(1), R(2), R(3), R(4)>>, <<R(0), R(1), R(2), R(3), R(4)>>, qa,
          -1, FALSE, 1, 1, 1) : qa \in SeqsUpTo(Queries, 1)}

\* 1-D arrays of any length and order
MalformedCalls ==
    {Call(xa, [i \in 1..j |-> R(0)], qa, -1, FALSE, 1, 1, 1) :
        xa \in SeqsUpTo({R(0), R(1), R(2)}, MaxN), j \in 0..MaxN,
        qa \in SeqsUpTo({Norm(-1, 2), R(1), Norm(5, 2)}, 1)}

\* the keyword arguments and the dimensions of the arrays, on a few samples.  An
\* array that is not 1-D is known here by its number of dimensions alone: the
\* code raises before it reads such an array.
OptionCalls ==
    {Call(xa, [i \in 1..j |-> R(0)], qa, ax, o, xd, yd, qd) :
        xa \in SeqsUpTo({R(0), R(1)}, 2) \cup {<<R(0), R(1), R(2)>>, <<R(0), R(0), R(1)>>},
        j \in 2..3, qa \in {<<>>, <<Norm(1, 2)>>, <<Norm(-1, 2)>>},
        ax \in {-1, 0}, o \in BOOLEAN, xd \in 1..2, yd \in 1..2, qd \in 1..2}

\* Ten points whose slopes are 0, a, a, B, 0, 0, B, 0, 0 with a small step a and
\* a steep slope B: the combined weight of the point 1 is a, the largest combined
\* weight is 2 B, and a is above or below 1e-9 * 2 B depending on B.
SteepSlopes == {400000000, 600000000, 700000000}

SteepOrdinates(a, B) ==
    <<R(0), R(0), R(a), R(2 * a), R(2 * a + B), R(2 * a + B), R(2 * a + B),
      R(2 * a + 2 * B), R(2 * a + 2 * B), R(2 * a + 2 * B)>>

SteepCalls ==
    {Call([i \in 1..10 |-> R(i - 1)], SteepOrdinates(a, B), qa, -1, FALSE, 1, 1, 1) :
        a \in 1..2, B \in SteepSlopes,
        qa \in {<<>>, <<R(1)>>, <<Norm(1, 2)>>, <<Norm(3, 2)>>, <<Norm(3, 2), Norm(1, 2)>>}}

Calls ==
    SampleCalls \cup RoundTripCalls \cup OrderCalls \cup LinearCalls
        \cup MalformedCalls \cup OptionCalls

(***************************************************************************)
(* The state of one call.                                                  *)
(*   args      the caller's arguments                                      *)
(*   x, y, xi  the function's own float64 copies (lines 194-196)           *)
(*   n .. wj   the locals of the function body; <<>>, {} or 0 until set    *)
(*   result    the returned array, <<>> until the call returns             *)
(*   raised    the exception's message, "" while none is raised            *)
(*   pc        the next block of statements                                *)
(* b is no variable: it is the view m1[1 : n + 1] (line 237).              *)
(***************************************************************************)
VARIABLES args, x, y, xi, n, dx, m, m1, f1, f2, f12, ids, c, d, bb, wj, result, raised, pc

vars == <<args, x, y, xi, n, dx, m, m1, f1, f2, f12, ids, c, d, bb, wj, result, raised, pc>>

copies == <<x, y, xi>>

weights == <<f1, f2, f12, ids>>

coeffs == <<c, d>>

lookup == <<bb, wj>>

locals == <<n, dx, m, m1, weights, coeffs, lookup>>

b == View(m1, n)

Init ==
    /\ args \in Calls
    /\ x = <<>> /\ y = <<>> /\ xi = <<>>
    /\ n = 0 /\ dx = <<>> /\ m = <<>> /\ m1 = <<>>
    /\ f1 = <<>> /\ f2 = <<>> /\ f12 = <<>> /\ ids = {}
    /\ c = <<>> /\ d = <<>> /\ bb = <<>> /\ wj = <<>>
    /\ result = <<>> /\ raised = "" /\ pc = "enter"

Raise(msg) ==
    /\ raised' = msg
    /\ pc' = "raised"

\* lines 194-204: the copies, then the checks of the keyword arguments and of
\* the dimensions
Enter ==
    /\ pc = "enter"
    /\ x' = args.x /\ y' = args.y /\ xi' = args.x_new
    /\ \/ /\ (args.axis # -1 \/ args.out \/ args.yndim # 1)
          /\ Raise("implemented in C extension module")
       \/ /\ ~(args.axis # -1 \/ args.out \/ args.yndim # 1)
          /\ (args.xndim # 1 \/ args.qndim # 1)
          /\ Raise("x-arrays must be one dimensional")
       \/ /\ ~(args.axis # -1 \/ args.out \/ args.yndim # 1)
          /\ ~(args.xndim # 1 \/ args.qndim # 1)
          /\ pc' = "size"
          /\ UNCHANGED raised
    /\ UNCHANGED <<args, locals, result>>

\* the two checks of the size in the other order
CheckSize_MatchFirst ==
    /\ pc = "size"
    /\ n' = Len(x)
    /\ \/ /\ Len(x) # Len(y)
          /\ Raise("size of x-array must match data shape")
       \/ /\ Len(x) = Len(y)
          /\ Len(x) < 3
          /\ Raise("array too small")
       \/ /\ ~(Len(x) < 3)
          /\ Len(x) = Len(y)
          /\ pc' = "axis"
          /\ UNCHANGED raised
    /\ UNCHANGED <<args, copies, dx, m, m1, weights, coeffs, lookup, result>>

\* lines 206-212
CheckSize ==
    /\ pc = "size"
    /\ n' = Len(x)
    /\ \/ /\ Len(x) < 3
          /\ Raise("array too small")
       \/ /\ ~(Len(x) < 3)
          /\ Len(x) # Len(y)
          /\ Raise("size of x-array must match data shape")
       \/ /\ ~(Len(x) < 3)
          /\ Len(x) = Len(y)
          /\ pc' = "axis"
          /\ UNCHANGED raised
    /\ UNCHANGED <<args, copies, dx, m, m1, weights, coeffs, lookup, result>>

\* lines 214-217
CheckAxis ==
    /\ pc = "axis"
    /\ dx' = Diff(x)
    /\ \/ /\ \E i \in 1..Len(Diff(x)) : RLeq(Diff(x)[i], R(0))
          /\ Raise("x-axis not valid")
       \/ /\ ~(\E i \in 1..Len(Diff(x)) : RLeq(Diff(x)[i], R(0)))
          /\ pc' = "bounds"
          /\ UNCHANGED raised
    /\ UNCHANGED <<args, copies, n, m, m1, weights, coeffs, lookup, result>>

\* the check of the upper end left out
CheckBounds_LowerOnly ==
    /\ pc = "bounds"
    /\ \/ /\ \E j \in 1..Len(xi) : RLess(xi[j], At(x, 0))
          /\ Raise("interpolation x-axis out of bounds")
       \/ /\ ~(\E j \in 1..Len(xi) : RLess(xi[j], At(x, 0)))
          /\ pc' = "slopes"
          /\ UNCHANGED raised
    /\ UNCHANGED <<args, copies, locals, result>>

\* lines 219-221
CheckBounds ==
    /\ pc = "bounds"
    /\ \/ /\ (\E j \in 1..Len(xi) : RLess(xi[j], At(x, 0)))
             \/ (\E j \in 1..Len(xi) : RLess(At(x, n - 1), xi[j]))
          /\ Raise("interpolation x-axis out of bounds")
       \/ /\ ~((\E j \in 1..Len(xi) : RLess(xi[j], At(x, 0)))
               \/ (\E j \in 1..Len(xi) : RLess(At(x, n - 1), xi[j])))
          /\ pc' = "slopes"
          /\ UNCHANGED raised
    /\ UNCHANGED <<args, copies, locals, result>>

\* lines 223-229
Slopes ==
    /\ pc = "slopes"
    /\ m' = SecantSlopes(y, dx)
    /\ m1' = ExtendSlopes(SecantSlopes(y, dx), n)
    /\ pc' = "weights"
    /\ UNCHANGED <<args, copies, n, dx, weights, coeffs, lookup, result, raised>>

\* lines 231-236
Weights ==
    /\ pc = "weights"
    /\ f1' = Slice(SlopeDiffs(m1), 2, n + 2)
    /\ f2' = Slice(SlopeDiffs(m1), 0, n)
    /\ f12' = AddSeq(Slice(SlopeDiffs(m1), 2, n + 2), Slice(SlopeDiffs(m1), 0, n))
    /\ ids' = SelectIds(AddSeq(Slice(SlopeDiffs(m1), 2, n + 2), Slice(SlopeDiffs(m1), 0, n)))
    /\ pc' = "derivatives"
    /\ UNCHANGED <<args, copies, n, dx, m, m1, coeffs, lookup, result, raised>>

\* lines 237-239
Derivatives ==
    /\ pc = "derivatives"
    /\ m1' = AssignDerivatives(m1, f1, f2, f12, ids)
    /\ pc' = "coefficients"
    /\ UNCHANGED <<args, copies, n, dx, m, weights, coeffs, lookup, result, raised>>

\* lines 240-241
Coefficients ==
    /\ pc = "coefficients"
    /\ c' = CoeffC(m, b, dx, n)
    /\ d' = CoeffD(m, b, dx, n)
    /\ pc' = "evaluate"
    /\ UNCHANGED <<args, copies, n, dx, m, m1, weights, lookup, result, raised>>

\* lines 243-248
Evaluate ==
    /\ pc = "evaluate"
    /\ bb' = [j \in 1..Len(xi) |-> Segment(xi[j], x, n)]
    /\ wj' = [j \in 1..Len(xi) |-> RSub(xi[j], At(x, Segment(xi[j], x, n)))]
    /\ result' = [j \in 1..Len(xi) |->
                    LET k == Segment(xi[j], x, n)
                    IN  Horner(RSub(xi[j], At(x, k)), k, y, b, c, d)]
    /\ pc' = "done"
    /\ UNCHANGED <<args, copies, n, dx, m, m1, weights, coeffs, raised>>

Next ==
    \/ Enter
    \/ CheckSize
    \/ CheckAxis
    \/ CheckBounds
    \/ Slopes
    \/ Weights
    \/ Derivatives
    \/ Coefficients
    \/ Evaluate

Spec == Init /\ [][Next]_vars

\* the same calls and the calls with steep slopes
InitSteep ==
    /\ args \in Calls \cup SteepCalls
    /\ x = <<>> /\ y = <<>> /\ xi = <<>>
    /\ n = 0 /\ dx = <<>> /\ m = <<>> /\ m1 = <<>>
    /\ f1 = <<>> /\ f2 = <<>> /\ f12 = <<>> /\ ids = {}
    /\ c = <<>> /\ d = <<>> /\ bb = <<>> /\ wj = <<>>
    /\ result = <<>> /\ raised = "" /\ pc = "enter"

SpecSteep == InitSteep /\ [][Next]_vars

(***************************************************************************)
(* Properties.                                                             *)
(***************************************************************************)
Returned == pc = "done"

\* the samples of the call and its slopes are strictly monotonic
Rising == \A i \in 1..Len(m) : RLess(R(0), m[i])

Falling == \A i \in 1..Len(m) : RLess(m[i], R(0))

\* the cubic of segment i and its first derivative, at the offset t
Cubic(i, t) ==
    RAdd(At(y, i),
         RAdd(RMul(At(b, i), t),
              RAdd(RMul(At(c, i), RMul(t, t)), RMul(At(d, i), RMul(t, RMul(t, t))))))

CubicSlope(i, t) ==
    RAdd(At(b, i),
         RAdd(RMul(R(2), RMul(At(c, i), t)), RMul(R(3), RMul(At(d, i), RMul(t, t)))))

\* C1: a call that returns gives, for every query that is one of the abscissas
\* x[i], the ordinate y[i]; so interpolate(x, y, x) returns y, the first and the
\* last sample included.
C1_RoundTrip ==
    Returned =>
        /\ \A j \in 1..Len(args.x_new) : \A i \in 1..Len(args.x) :
              args.x_new[j] = args.x[i] => result[j] = args.y[i]
        /\ args.x_new = args.x => result = args.y

\* a returned call of interpolate(x, y, x) on samples that are not collinear,
\* whose last query was evaluated on the last segment at the offset dx[n-2]
C1_Witness ==
    /\ Returned
    /\ args.x_new = args.x
    /\ n >= 4
    /\ ids # {}
    /\ At(bb, n - 1) = n - 2
    /\ At(wj, n - 1) = At(dx, n - 2)
    /\ result = args.y

\* C4: once c and d are computed, the cubic of every segment i takes the values
\* y[i] and y[i+1] and the slopes b[i] and b[i+1] at its two ends, so that the
\* cubics of two adjacent segments agree in value and slope where they meet.
C4_EndpointMatching ==
    pc \in {"evaluate", "done"} =>
        /\ \A i \in 0..(n - 2) :
              /\ Cubic(i, R(0)) = At(y, i)
              /\ Cubic(i, At(dx, i)) = At(y, i + 1)
              /\ CubicSlope(i, R(0)) = At(b, i)
              /\ CubicSlope(i, At(dx, i)) = At(b, i + 1)
        /\ \A i \in 1..(n - 2) :
              /\ Cubic(i - 1, At(dx, i - 1)) = Cubic(i, R(0))
              /\ CubicSlope(i - 1, At(dx, i - 1)) = CubicSlope(i, R(0))

\* coefficients of a segment of length other than 1 whose cubic is a true cubic
C4_Witness ==
    /\ pc = "evaluate"
    /\ \E i \in 0..(n - 2) :
          /\ At(dx, i) # R(1)
          /\ At(d, i) # R(0)
          /\ At(c, i) # R(0)
          /\ At(b, i) # At(b, i + 1)

\* C5: when all secant slopes are equal to one slope s, every combined weight is
\* 0, no point is selected, every derivative is s, c and d are 0 on every segment
\* and every query q returns y[0] + s * (q - x[0]).
C5_LinearData ==
    (Returned /\ \A i \in 1..Len(m) : m[i] = m[1]) =>
        /\ \A i \in 1..Len(f12) : f12[i] = R(0)
        /\ ids = {}
        /\ \A i \in 0..(n - 1) : At(b, i) = m[1]
        /\ \A i \in 0..(n - 2) : At(c, i) = R(0) /\ At(d, i) = R(0)
        /\ \A j \in 1..Len(xi) :
              result[j] = RAdd(At(y, 0), RMul(m[1], RSub(xi[j], At(x, 0))))

\* collinear samples of slope other than 0 on unequal intervals, queried between
\* two abscissas
C5_Witness ==
    /\ Returned
    /\ \A i \in 1..Len(m) : m[i] = m[1]
    /\ m[1] # R(0)
    /\ \E i \in 1..Len(dx) : dx[i] # dx[1]
    /\ \E j \in 1..Len(xi) : \A i \in 1..n : xi[j] # x[i]

\* the largest i with x[i] <= q
LargestLeq(q) ==
    CHOOSE i \in 0..(n - 1) :
        /\ RLeq(At(x, i), q)
        /\ \A k \in 0..(n - 1) : RLeq(At(x, k), q) => k <= i

Clamp(k, lo, hi) == IF k < lo THEN lo ELSE IF k > hi THEN hi ELSE k

\* C7: in a call that returns, the segment used for a query q is the largest i
\* with x[i] <= q, clamped to 0 .. n-2: an index of c and of d, 0 for q = x[0],
\* n-2 for q = x[n-1], and the offset used is q - x[k], between 0 and dx[k].
C7_SegmentLookup ==
    Returned =>
        \A j \in 1..Len(xi) :
            /\ bb[j] = Clamp(LargestLeq(xi[j]), 0, n - 2)
            /\ bb[j] \in 0..(n - 2)
            /\ bb[j] + 1 \in DOMAIN c /\ bb[j] + 1 \in DOMAIN d
            /\ xi[j] = At(x, 0) => bb[j] = 0
            /\ xi[j] = At(x, n - 1) => bb[j] = n - 2
            /\ wj[j] = RSub(xi[j], At(x, bb[j]))
            /\ RLeq(R(0), wj[j]) /\ RLeq(wj[j], At(dx, bb[j]))

\* a call on four or more unequally spaced points queried at its own abscissas:
\* the first maps to segment 0, an interior one to its own segment and the last
\* to segment n-2 with the offset dx[n-2]
C7_Witness ==
    /\ Returned
    /\ n >= 4
    /\ Len(xi) = n
    /\ \E i \in 1..Len(dx) : dx[i] # dx[1]
    /\ xi[1] = At(x, 0) /\ bb[1] = 0 /\ wj[1] = R(0)
    /\ xi[2] = At(x, 1) /\ bb[2] = 1 /\ wj[2] = R(0)
    /\ xi[n] = At(x, n - 1) /\ bb[n] = n - 2 /\ wj[n] = At(dx, n - 2)

\* the tolerance of the overshoot statement, a tenth of an ordinate unit
OvershootTol == Norm(1, 10)

RMin2(p, q) == IF RLess(q, p) THEN q ELSE p

\* v is within tol of the interval between y[k] and y[k+1]
WithinEnds(v, k, tol) ==
    /\ RLeq(RSub(RMin2(At(y, k), At(y, k + 1)), tol), v)
    /\ RLeq(v, RAdd(RMax2(At(y, k), At(y, k + 1)), tol))

\* the slope s has the sign of the secant slope of segment k and is at most
\* three times as large
SlopeWithinThrice(s, k) ==
    \/ RLeq(R(0), s) /\ RLeq(s, RMul(R(3), At(m, k)))
    \/ RLeq(RMul(R(3), At(m, k)), s) /\ RLeq(s, R(0))

\* C3 as stated: for strictly monotonic samples, no value returned for a query
\* between x[k] and x[k+1] is outside the interval between y[k] and y[k+1] by
\* more than the tolerance.
C3_NoOvershoot ==
    (Returned /\ (Rising \/ Falling)) =>
        \A j \in 1..Len(xi) : \A k \in 0..(n - 2) :
            (RLeq(At(x, k), xi[j]) /\ RLeq(xi[j], At(x, k + 1)))
                => WithinEnds(result[j], k, OvershootTol)

\* C3 as amended: for strictly monotonic samples, the value returned for a query
\* between x[k] and x[k+1] is within the interval between y[k] and y[k+1] when
\* both derivatives b[k] and b[k+1] lie between 0 and 3 m[k].
C3_NoOvershootBoundedSlopes ==
    (Returned /\ (Rising \/ Falling)) =>
        \A j \in 1..Len(xi) : \A k \in 0..(n - 2) :
            (/\ RLeq(At(x, k), xi[j]) /\ RLeq(xi[j], At(x, k + 1))
             /\ SlopeWithinThrice(At(b, k), k)
             /\ SlopeWithinThrice(At(b, k + 1), k))
                => WithinEnds(result[j], k, R(0))

\* strictly rising samples that are not collinear, queried inside a segment whose
\* two derivatives are within the bounds and whose cubic is not a straight line
C3_Witness ==
    /\ Returned
    /\ Rising
    /\ \E j \in 1..Len(xi) : \E k \in 0..(n - 2) :
          /\ RLess(At(x, k), xi[j]) /\ RLess(xi[j], At(x, k + 1))
          /\ SlopeWithinThrice(At(b, k), k)
          /\ SlopeWithinThrice(At(b, k + 1), k)
          /\ At(b, k) # At(m, k)
          /\ At(d, k) # R(0)
          /\ RLess(At(y, k), result[j]) /\ RLess(result[j], At(y, k + 1))

(***************************************************************************)
(* The formulas of the method, written for one point, one segment and one  *)
(* query of the caller's arguments: what the vectorised code is compared   *)
(* with.  Indices are those of the code; Ext(k) is m1[k + 2].              *)
(***************************************************************************)
RefN == Len(args.x)

RefDx(i) == RSub(At(args.x, i + 1), At(args.x, i))

RefM(i) == RDiv(RSub(At(args.y, i + 1), At(args.y, i)), RefDx(i))

RefExt(k) ==
    LET mm == RSub(RMul(R(2), RefM(0)), RefM(1))
        mp == RSub(RMul(R(2), RefM(RefN - 2)), RefM(RefN - 3))
    IN  CASE k = -2 -> RSub(RMul(R(2), mm), RefM(0))
          [] k = -1 -> mm
          [] k = RefN - 1 -> mp
          [] k = RefN -> RSub(RMul(R(2), mp), RefM(RefN - 2))
          [] OTHER -> RefM(k)

RefF1(i) == RAbs(RSub(RefExt(i + 1), RefExt(i)))

RefF2(i) == RAbs(RSub(RefExt(i - 1), RefExt(i - 2)))

RefWeight(i) == RAdd(RefF1(i), RefF2(i))

\* the largest combined weight of all points
RefMaxWeight ==
    CHOOSE w \in {RefWeight(i) : i \in 0..(RefN - 1)} :
        \A i \in 0..(RefN - 1) : RLeq(RefWeight(i), w)

\* the derivative at the point i, wmax being the largest combined weight
RefB(i, wmax) ==
    IF AboveThreshold(RefWeight(i), wmax)
    THEN RDiv(RAdd(RMul(RefF1(i), RefExt(i - 1)), RMul(RefF2(i), RefExt(i))), RefWeight(i))
    ELSE RefExt(i - 1)

\* the derivatives at the points 0 .. n-1
RefDerivs == LET wmax == RefMaxWeight IN [i \in 0..(RefN - 1) |-> RefB(i, wmax)]

RefC(i, bs) ==
    RDiv(RSub(RSub(RMul(R(3), RefM(i)), RMul(R(2), bs[i])), bs[i + 1]), RefDx(i))

RefD(i, bs) ==
    RDiv(RSub(RAdd(bs[i], bs[i + 1]), RMul(R(2), RefM(i))), RMul(RefDx(i), RefDx(i)))

RefSegment(q) ==
    LET last == CHOOSE i \in 0..(RefN - 1) :
                    /\ RLeq(At(args.x, i), q)
                    /\ \A k \in 0..(RefN - 1) : RLeq(At(args.x, k), q) => k <= i
    IN  Clamp(last, 0, RefN - 2)

RefValue(q, bs) ==
    LET k == RefSegment(q)
        t == RSub(q, At(args.x, k))
    IN  RAdd(RMul(RAdd(RMul(RAdd(RMul(RefD(k, bs), t), RefC(k, bs)), t), bs[k]), t),
             At(args.y, k))

\* C6: a call that returns gives one value for every query, in the order of the
\* queries, and the value for the query q is the one the formulas of the method
\* give for q; x = [0,1,2], y = [0,0,1], x_new = [0.5, 1.5] gives [-0.125, 0.375].
C6_ReferenceResult ==
    Returned =>
        /\ Len(result) = Len(args.x_new)
        /\ LET bs == RefDerivs
           IN  \A j \in 1..Len(args.x_new) : result[j] = RefValue(args.x_new[j], bs)
        /\ (/\ args.x = <<R(0), R(1), R(2)>>
            /\ args.y = <<R(0), R(0), R(1)>>
            /\ args.x_new = <<Norm(1, 2), Norm(3, 2)>>)
              => result = <<Norm(-1, 8), Norm(3, 8)>>

\* the documented example has returned its two values
C6_Witness ==
    /\ Returned
    /\ args.x = <<R(0), R(1), R(2)>>
    /\ args.y = <<R(0), R(0), R(1)>>
    /\ args.x_new = <<Norm(1, 2), Norm(3, 2)>>
    /\ result = <<Norm(-1, 8), Norm(3, 8)>>

\* the extended slopes as they are before line 239 overwrites part of them
SlopesBefore == ExtendSlopes(m, n)

AfterDerivatives == pc \in {"coefficients", "evaluate", "done"}

AllFinite(s) == \A i \in 1..Len(s) : IsFinite(s[i])

\* C8: after line 239, with W the largest combined weight of all points, b[i] is
\* the weighted value when f1 + f2 > 1e-9 * W and m1[i+1] otherwise; the points
\* selected are those above that one threshold, none of them has the combined
\* weight 0, no divisor of the computation is 0 and every value is finite.
C8_DerivativeSelection ==
    AfterDerivatives =>
        /\ \A i \in 0..(n - 1) :
              /\ At(f1, i) = RAbs(RSub(At(SlopesBefore, i + 3), At(SlopesBefore, i + 2)))
              /\ At(f2, i) = RAbs(RSub(At(SlopesBefore, i + 1), At(SlopesBefore, i)))
              /\ At(f12, i) = RAdd(At(f1, i), At(f2, i))
              /\ i \in ids <=> AboveThreshold(At(f12, i), MaxSeq(f12))
              /\ At(b, i) =
                    IF AboveThreshold(At(f12, i), MaxSeq(f12))
                    THEN RDiv(RAdd(RMul(At(f1, i), At(SlopesBefore, i + 1)),
                                   RMul(At(f2, i), At(SlopesBefore, i + 2))),
                              RAdd(At(f1, i), At(f2, i)))
                    ELSE At(SlopesBefore, i + 1)
        /\ \A i \in ids : At(f12, i) # R(0)
        /\ (MaxSeq(f12) = R(0)) => ids = {}
        /\ \A i \in 1..Len(dx) : dx[i] # R(0)
        /\ AllFinite(m) /\ AllFinite(m1) /\ AllFinite(c) /\ AllFinite(d) /\ AllFinite(result)

\* a point whose combined weight is not 0 and not above the threshold keeps the
\* default, which differs from the weighted value, while other points are selected
C8_Witness ==
    /\ AfterDerivatives
    /\ ids # {}
    /\ \E i \in 0..(n - 1) :
          /\ At(f12, i) # R(0)
          /\ i \notin ids
          /\ At(b, i) = At(SlopesBefore, i + 1)
          /\ At(b, i) # Weighted(SlopesBefore, f1, f2, f12, i)

\* C9: after line 239 every selected b[i] is the weighted value of the slopes as
\* they were before the assignment, every other element of m1 is as it was, the
\* secant slopes m are unchanged, the function's arrays are equal to the
\* caller's arguments, and no step changes the caller's arguments.
C9_InPlaceUpdate ==
    /\ [](AfterDerivatives =>
            /\ \A i \in ids : At(b, i) = Weighted(SlopesBefore, f1, f2, f12, i)
            /\ \A k \in 0..(n + 2) : (k - 1) \notin ids => At(m1, k) = At(SlopesBefore, k)
            /\ m = SecantSlopes(y, dx))
    /\ [](pc # "enter" => x = args.x /\ y = args.y /\ xi = args.x_new)
    /\ [][args' = args]_vars

\* two adjacent points are selected and the derivative of the first differs from
\* the slope it overwrites, which the weighted value of the second reads
C9_Witness ==
    /\ AfterDerivatives
    /\ \E i \in 0..(n - 2) :
          /\ i \in ids /\ (i + 1) \in ids
          /\ At(m1, i + 1) # At(SlopesBefore, i + 1)
          /\ At(m1, i + 2) # At(SlopesBefore, i + 2)
          /\ At(f2, i) # R(0)

(***************************************************************************)
(* The preconditions, as statements about the caller's arguments.          *)
(***************************************************************************)
DefaultOptions == args.axis = -1 /\ ~args.out

AllOneDim == args.xndim = 1 /\ args.yndim = 1 /\ args.qndim = 1

TooSmall == Len(args.x) < 3

LengthMismatch == Len(args.x) # Len(args.y)

NotIncreasing ==
    \E i \in 1..(Len(args.x) - 1) : RLeq(RSub(args.x[i + 1], args.x[i]), R(0))

OutOfDomain ==
    /\ Len(args.x) > 0
    /\ \E j \in 1..Len(args.x_new) :
          \/ RLess(args.x_new[j], args.x[1])
          \/ RLess(args.x[Len(args.x)], args.x_new[j])

Unset == <<>>

NothingComputed ==
    /\ m = Unset /\ m1 = Unset
    /\ f1 = Unset /\ f2 = Unset /\ f12 = Unset /\ ids = {}
    /\ c = Unset /\ d = Unset /\ bb = Unset /\ wj = Unset
    /\ result = Unset

ValidationErrors ==
    {"array too small", "size of x-array must match data shape", "x-axis not valid",
     "interpolation x-axis out of bounds"}

\* C2: a call with 1-D arrays and default options whose x has fewer than 3
\* elements, or not as many as y, or is not strictly increasing, or whose queries
\* are not all within the abscissas, never gets past the checks: it computes no
\* slope, derivative, coefficient or result, it goes on until it raises, and what
\* it raises is one of the four validation errors.
C2_RejectionFailFast ==
    (DefaultOptions /\ AllOneDim
        /\ (TooSmall \/ LengthMismatch \/ NotIncreasing \/ OutOfDomain)) =>
        /\ pc \in {"enter", "size", "axis", "bounds", "raised"}
        /\ NothingComputed
        /\ pc # "raised" => (raised = "" /\ ENABLED Next)
        /\ pc = "raised" => raised \in ValidationErrors

\* a call whose only fault is a query beyond the last abscissa has raised
C2_Witness ==
    /\ pc = "raised"
    /\ DefaultOptions /\ AllOneDim
    /\ ~TooSmall /\ ~LengthMismatch /\ ~NotIncreasing
    /\ \E j \in 1..Len(args.x_new) : RLess(args.x[Len(args.x)], args.x_new[j])
    /\ \A j \in 1..Len(args.x_new) : RLeq(args.x[1], args.x_new[j])
    /\ raised = "interpolation x-axis out of bounds"
    /\ NothingComputed

\* the first check that fails, in the order of the code; "" when none does
FirstFailure ==
    CASE args.axis # -1 \/ args.out \/ args.yndim # 1 -> "implemented in C extension module"
      [] args.xndim # 1 \/ args.qndim # 1 -> "x-arrays must be one dimensional"
      [] TooSmall -> "array too small"
      [] LengthMismatch -> "size of x-array must match data shape"
      [] NotIncreasing -> "x-axis not valid"
      [] OutOfDomain -> "interpolation x-axis out of bounds"
      [] OTHER -> ""

Ended == pc \in {"raised", "done"}

\* C10: a call ends by raising exactly the first failing check of the fixed
\* order, and returns only when no check fails.
C10_ErrorPrecedence ==
    Ended =>
        /\ raised = FirstFailure
        /\ Returned <=> FirstFailure = ""
        /\ pc = "raised" <=> FirstFailure # ""

\* two elements of x against more of y, with a query out of range: the size of x
\* is reported
C10_Witness ==
    /\ pc = "raised"
    /\ Len(args.x) = 2 /\ Len(args.y) >= 3
    /\ NotIncreasing
    /\ OutOfDomain
    /\ raised = "array too small"

====
